---- MODULE Spec2Model ----
(***************************************************************************)
(* Risk-assessment pipeline of TrendWise: the rule engine                  *)
(* (src/src/rule_engine.py) and the model trainer (src/src/ml_model.py).   *)
(*                                                                         *)
(* Text cells of the entity tables are sequences of one-character strings, *)
(* so that str(), split(','), strip() and lower() are modelled by what     *)
(* they do.  A missing cell (pandas NaN) is a value of its own.            *)
(***************************************************************************)
EXTENDS Integers, Sequences, FiniteSets, TLC

VARIABLES
    users_df,            \* RuleEngine.users_df: sequence of user rows
    trends_df,           \* RuleEngine.trends_df: sequence of trend rows
    ingredient_risk_df,  \* RuleEngine.ingredient_risk_df: sequence of rows
    risk_df,             \* the matrix last returned by generate_risk_matrix
    call,                \* the last call made and its outcome
    model,               \* MLModel.model
    X_train, X_test,     \* MLModel.X_train / X_test
    y_train, y_test,     \* MLModel.y_train / y_test
    risk_df_cleaned,     \* MLModel.risk_df_cleaned
    label_encoder,       \* MLModel.label_encoder (its classes_)
    completed,           \* history: a train_model call has returned normally
    app                  \* TrendWiseApp: how far run() got and what it showed

engine == <<users_df, trends_df, ingredient_risk_df>>
trainer == <<model, X_train, X_test, y_train, y_test, risk_df_cleaned, label_encoder>>
vars == <<users_df, trends_df, ingredient_risk_df, risk_df, call,
          model, X_train, X_test, y_train, y_test, risk_df_cleaned, label_encoder,
          completed, app>>

----------------------------------------------------------------------------
(* Bounds of the model *)

MaxUsers == 2
MaxTrends == 2
MaxIngredients == 1

----------------------------------------------------------------------------
(* Values *)

\* a text cell holding the characters s
Str(s) == [na |-> FALSE, s |-> s]
\* a missing text cell (float NaN in the DataFrame)
NaN == [na |-> TRUE, s |-> <<>>]
\* a numeric cell
Num(v) == [na |-> FALSE, v |-> v]
\* a missing numeric cell
NaNNum == [na |-> TRUE, v |-> 0]
\* a missing categorical cell
NA == "<NaN>"

SetMin(S) == CHOOSE x \in S : \A y \in S : x <= y
SetMax(S) == CHOOSE x \in S : \A y \in S : x >= y

----------------------------------------------------------------------------
(* Python string operations on character sequences *)

UpperCase == <<"A","B","C","D","E","F","G","H","I","J","K","L","M",
               "N","O","P","Q","R","S","T","U","V","W","X","Y","Z">>
LowerCase == <<"a","b","c","d","e","f","g","h","i","j","k","l","m",
               "n","o","p","q","r","s","t","u","v","w","x","y","z">>

\* the lower-case letter of each upper-case letter
LowerTable ==
    [c \in {UpperCase[i] : i \in 1..Len(UpperCase)} |->
        LowerCase[CHOOSE i \in 1..Len(UpperCase) : UpperCase[i] = c]]

\* str.lower() on one character
LowerChar(c) == IF c \in DOMAIN LowerTable THEN LowerTable[c] ELSE c

\* str.lower()
lower(s) == [i \in 1..Len(s) |-> LowerChar(s[i])]

IsSpace(c) == c \in {" ", "\t", "\n"}

\* str.strip()
strip(s) ==
    LET keep == {i \in 1..Len(s) : ~IsSpace(s[i])}
    IN  IF keep = {} THEN <<>> ELSE SubSeq(s, SetMin(keep), SetMax(keep))

\* str.split(','): a list of pieces, [''] for the empty string
RECURSIVE split(_)
split(s) ==
    LET commas == {i \in 1..Len(s) : s[i] = ","}
    IN  IF commas = {} THEN <<s>>
        ELSE LET k == SetMin(commas)
             IN  <<SubSeq(s, 1, k - 1)>> \o split(SubSeq(s, k + 1, Len(s)))

\* sub in s
contains(sub, s) ==
    \E i \in 0..(Len(s) - Len(sub)) : SubSeq(s, i + 1, i + Len(sub)) = sub

\* str(x): the text itself, 'nan' for a missing cell
str(x) == IF x.na THEN <<"n","a","n">> ELSE x.s

ACID == <<"a","c","i","d">>
DETOX == <<"d","e","t","o","x">>

\* [a.strip().lower() for a in str(x).split(',') if str(a).strip()]
tokens(x) ==
    LET parts == split(str(x))
        kept == SelectSeq(parts, LAMBDA a : strip(a) # <<>>)
    IN  [i \in 1..Len(kept) |-> lower(strip(kept[i]))]

----------------------------------------------------------------------------
(* Rule engine: src/src/rule_engine.py *)

\* an operation's outcome: a returned value, or the exception it raised
Ok(v) == [exc |-> "none", val |-> v]
Raise(e) == [exc |-> e, val |-> 0]

\* the outcome of an assessment: (RiskLevel, RiskScore), or an exception
Assessed(level, score) == [exc |-> "none", RiskLevel |-> level, RiskScore |-> score]
RaiseA(e) == [exc |-> e, RiskLevel |-> "", RiskScore |-> 0]

risk_rules ==
    [Allergy |-> 3, Skincare_Mismatch |-> 2, Diet_Mismatch |-> 1, Banned_Ingredient |-> 3]

check_allergy_risk(user_allergies, trend_ingredients) ==
    LET ua == tokens(user_allergies)
        ti == tokens(trend_ingredients)
    IN  IF \E i \in 1..Len(ti) : \E j \in 1..Len(ua) : ti[i] = ua[j]
        THEN Ok(risk_rules.Allergy) ELSE Ok(0)

\* trend_ingredients.lower() raises AttributeError on a missing (float) cell;
\* `and` short-circuits, so it is reached only after the two comparisons hold
check_skincare_risk(skin_type, trend_type, trend_ingredients) ==
    IF trend_type = "Skincare" /\ skin_type = "Sensitive"
    THEN IF trend_ingredients.na THEN Raise("AttributeError")
         ELSE IF contains(ACID, lower(trend_ingredients.s))
              THEN Ok(risk_rules.Skincare_Mismatch) ELSE Ok(0)
    ELSE Ok(0)

\* check_diet_risk with the BMI bound inclusive
check_diet_risk_ge(bmi, trend_type, trend_ingredients) ==
    IF trend_type = "Dietary" /\ ~bmi.na /\ bmi.v >= 30
    THEN IF trend_ingredients.na THEN Raise("AttributeError")
         ELSE IF contains(DETOX, lower(trend_ingredients.s))
              THEN Ok(risk_rules.Diet_Mismatch) ELSE Ok(0)
    ELSE Ok(0)

\* bmi > 30 is False for a missing BMI
check_diet_risk(bmi, trend_type, trend_ingredients) ==
    IF trend_type = "Dietary" /\ ~bmi.na /\ bmi.v > 30
    THEN IF trend_ingredients.na THEN Raise("AttributeError")
         ELSE IF contains(DETOX, lower(trend_ingredients.s))
              THEN Ok(risk_rules.Diet_Mismatch) ELSE Ok(0)
    ELSE Ok(0)

\* ingredient_risk_df[RiskLevel == 'High']['Ingredient'].str.lower().tolist();
\* .str.lower() leaves a missing Ingredient missing
high_risk_ingredients(table) ==
    LET high == SelectSeq(table, LAMBDA r : r.RiskLevel = "High")
    IN  [i \in 1..Len(high) |->
            IF high[i].Ingredient.na THEN NaN ELSE Str(lower(high[i].Ingredient.s))]

\* check_ingredient_risk_level without the RiskLevel == 'High' filter
check_ingredient_risk_level_any(trend_ingredients) ==
    LET ti == tokens(trend_ingredients)
    IN  IF \E i \in 1..Len(ti) : \E j \in 1..Len(ingredient_risk_df) :
              /\ ~ingredient_risk_df[j].Ingredient.na
              /\ lower(ingredient_risk_df[j].Ingredient.s) = ti[i]
        THEN Ok(risk_rules.Banned_Ingredient) ELSE Ok(0)

check_ingredient_risk_level(trend_ingredients) ==
    LET ti == tokens(trend_ingredients)
        hr == high_risk_ingredients(ingredient_risk_df)
    IN  IF \E i \in 1..Len(ti) : \E j \in 1..Len(hr) : hr[j] = Str(ti[i])
        THEN Ok(risk_rules.Banned_Ingredient) ELSE Ok(0)

\* sum(risk_scores)
sum_scores(risk_scores) ==
    risk_scores[1] + risk_scores[2] + risk_scores[3] + risk_scores[4]

\* max(risk_scores)
max_scores(risk_scores) ==
    SetMax({risk_scores[i] : i \in 1..Len(risk_scores)})

\* the thresholds with the boundary at 3 exclusive for High
risk_level_gt(max_risk) ==
    IF max_risk > 3 THEN "High Risk"
    ELSE IF max_risk >= 1 THEN "Medium Risk"
    ELSE "Safe"

risk_level(max_risk) ==
    IF max_risk >= 3 THEN "High Risk"
    ELSE IF max_risk >= 1 THEN "Medium Risk"
    ELSE "Safe"

\* risk_scores kept on the engine across calls: the previous call's score
\* is still in the list when the next pair is scored
assess_risk_efficient_stale(user, trend) ==
    LET a == check_allergy_risk(user.Allergies, trend.KeyIngredients)
        s == check_skincare_risk(user.SkinType, trend.Type, trend.KeyIngredients)
        d == check_diet_risk(user.BMI, trend.Type, trend.KeyIngredients)
        b == check_ingredient_risk_level(trend.KeyIngredients)
    IN  IF s.exc # "none" THEN RaiseA(s.exc)
        ELSE IF d.exc # "none" THEN RaiseA(d.exc)
        ELSE LET max_risk == max_scores(<<a.val, s.val, d.val, b.val, call.RiskScore>>)
             IN  Assessed(risk_level(max_risk), max_risk)

\* _assess_risk_efficient: the four checks in order, an exception of a check
\* propagating to the caller
assess_risk_efficient(user, trend) ==
    LET a == check_allergy_risk(user.Allergies, trend.KeyIngredients)
        s == check_skincare_risk(user.SkinType, trend.Type, trend.KeyIngredients)
        d == check_diet_risk(user.BMI, trend.Type, trend.KeyIngredients)
        b == check_ingredient_risk_level(trend.KeyIngredients)
    IN  IF s.exc # "none" THEN RaiseA(s.exc)
        ELSE IF d.exc # "none" THEN RaiseA(d.exc)
        ELSE LET max_risk == max_scores(<<a.val, s.val, d.val, b.val>>)
             IN  Assessed(risk_level(max_risk), max_risk)

\* assess_risk taking the first row of the table when the key matches none
assess_risk_fallback(user_id, trend_name) ==
    LET um == SelectSeq(users_df, LAMBDA r : r.UserID = user_id)
        tm == SelectSeq(trends_df, LAMBDA r : r.TrendName = trend_name)
        u == IF um = <<>> THEN users_df ELSE um
        t == IF tm = <<>> THEN trends_df ELSE tm
    IN  IF u = <<>> THEN RaiseA("IndexError")
        ELSE IF t = <<>> THEN RaiseA("IndexError")
        ELSE assess_risk_efficient(u[1], t[1])

\* assess_risk taking .iloc[0] of the whole Trends table
assess_risk_first_trend(user_id, trend_name) ==
    LET um == SelectSeq(users_df, LAMBDA r : r.UserID = user_id)
    IN  IF um = <<>> THEN RaiseA("IndexError")
        ELSE IF trends_df = <<>> THEN RaiseA("IndexError")
        ELSE assess_risk_efficient(um[1], trends_df[1])

\* assess_risk: .iloc[0] of the rows whose key matches, IndexError when none does
assess_risk(user_id, trend_name) ==
    LET um == SelectSeq(users_df, LAMBDA r : r.UserID = user_id)
        tm == SelectSeq(trends_df, LAMBDA r : r.TrendName = trend_name)
    IN  IF um = <<>> THEN RaiseA("IndexError")
        ELSE IF tm = <<>> THEN RaiseA("IndexError")
        ELSE assess_risk_efficient(um[1], tm[1])

\* the row appended for one (user, trend) pair
matrix_row(user_data, trend_data, r) ==
    [UserID |-> user_data.UserID, Age |-> user_data.Age, BMI |-> user_data.BMI,
     SkinType |-> user_data.SkinType, Allergies |-> user_data.Allergies,
     HormoneLevel |-> user_data.HormoneLevel,
     TrendName |-> trend_data.TrendName, TrendType |-> trend_data.Type,
     KeyIngredients |-> trend_data.KeyIngredients,
     RiskLevel |-> r.RiskLevel, RiskScore |-> r.RiskScore]

\* the pairs of row positions in the order the nested loops visit them:
\* outer over users_df, inner over trends_df
matrix_pairs(users, trends) ==
    IF trends = <<>> THEN <<>>
    ELSE [k \in 1..(Len(users) * Len(trends)) |->
            <<((k - 1) \div Len(trends)) + 1, ((k - 1) % Len(trends)) + 1>>]

\* generate_risk_matrix: the rows in loop order; the first pair whose
\* assessment raises aborts the loops and the exception propagates
generate_risk_matrix ==
    LET pairs == matrix_pairs(users_df, trends_df)
        res == [k \in 1..Len(pairs) |->
                  assess_risk_efficient(users_df[pairs[k][1]], trends_df[pairs[k][2]])]
        bad == {k \in 1..Len(pairs) : res[k].exc # "none"}
    IN  IF bad # {} THEN [exc |-> res[SetMin(bad)].exc, rows |-> <<>>]
        ELSE [exc |-> "none",
              rows |-> [k \in 1..Len(pairs) |->
                         matrix_row(users_df[pairs[k][1]], trends_df[pairs[k][2]], res[k])]]

----------------------------------------------------------------------------
(* The entity tables handed to the engine *)

\* the rows of pool at the positions S, in pool order
RECURSIVE Pick(_, _)
Pick(pool, S) ==
    IF S = {} THEN <<>>
    ELSE LET k == SetMin(S) IN <<pool[k]>> \o Pick(pool, S \ {k})

\* the tables of at most max rows taken from pool
Tables(pool, max) ==
    {Pick(pool, S) : S \in {T \in SUBSET (1..Len(pool)) : Cardinality(T) <= max}}

\* key columns of n rows: 1, 2, ... in row order, a key possibly repeated
Keys(n) ==
    {k \in [1..n -> 1..n] :
        /\ n > 0 => k[1] = 1
        /\ \A i \in 2..n : k[i] \in {k[i - 1], k[i - 1] + 1}}

User(age, bmi, skin, allergies, hormone) ==
    [UserID |-> 0, Age |-> age, BMI |-> bmi, SkinType |-> skin,
     Allergies |-> allergies, HormoneLevel |-> hormone]
Trend(type, ingredients) ==
    [TrendName |-> 0, Type |-> type, KeyIngredients |-> ingredients]
Ingredient(name, level) == [Ingredient |-> name, RiskLevel |-> level]

UserPool ==
    << User(Num(25), Num(31), "Sensitive", Str(<<"N","u","t","s">>), "Normal"),
       User(Num(40), Num(30), "Sensitive", Str(<<"n","o","n","e">>), "Low"),
       User(NaNNum, Num(35), "Oily", NaN, "High") >>

TrendPool ==
    << Trend("Skincare", Str(<<"N","u","t","s",","," ","A","c","i","d">>)),
       Trend("Dietary", Str(<<"D","e","t","o","x"," ","T","e","a",","," ","L","e","a","d">>)),
       Trend("Skincare", NaN) >>

IngredientPool ==
    << Ingredient(Str(<<"L","e","a","d">>), "High"),
       Ingredient(Str(<<"N","u","t","s">>), "Low") >>

UsersTables ==
    UNION {{[i \in 1..Len(p) |-> [p[i] EXCEPT !.UserID = k[i]]] : k \in Keys(Len(p))} :
              p \in Tables(UserPool, MaxUsers)}

TrendsTables ==
    UNION {{[i \in 1..Len(p) |-> [p[i] EXCEPT !.TrendName = k[i]]] : k \in Keys(Len(p))} :
              p \in Tables(TrendPool, MaxTrends)}

\* single-row tables over the full product of the attribute values
AllergyTexts ==
    { Str(<<>>), Str(<<"n","o","n","e">>), Str(<<" ","N","o","n","e"," ">>), Str(<<"s","o","y",","," ",",","N","U","T","S">>), NaN }
IngredientTexts ==
    { Str(<<"N","u","t","s",","," ","A","c","i","d">>), Str(<<"D","e","t","o","x"," ","T","e","a">>), Str(<<"n","o","n","e">>), Str(<<"L","E","A","D"," ",","," ","S","o","y">>), NaN }
SkinTypes == {"Sensitive", "Normal"}
BMIs == {Num(30), Num(31), NaNNum}
TrendTypes == {"Skincare", "Dietary", "General"}

PairIngredientPool ==
    << Ingredient(Str(<<"L","e","a","d">>), "High"),
       Ingredient(Str(<<"S","o","y"," ">>), "High"),
       Ingredient(Str(<<"A","c","i","d">>), "Low") >>

NoCall == [op |-> "none", exc |-> "none", RiskLevel |-> "", RiskScore |-> 0]
NoneDf == [set |-> FALSE, rows |-> <<>>]
Df(rows) == [set |-> TRUE, rows |-> rows]
NoneModel == [set |-> FALSE, fitted |-> FALSE]

\* TrendWiseApp.__init__: run() not called yet
NotRun == [ran |-> FALSE, setup |-> "none", error |-> FALSE, rendered |-> FALSE,
           matrix_exc |-> "none", train_exc |-> "none", risk_df |-> NoneDf]

\* MLModel.__init__ and the caller's variables before any call
InitRest ==
    /\ risk_df = NoneDf
    /\ call = NoCall
    /\ model = NoneModel
    /\ X_train = NoneDf
    /\ X_test = NoneDf
    /\ y_train = NoneDf
    /\ y_test = NoneDf
    /\ risk_df_cleaned = NoneDf
    /\ label_encoder = [fitted |-> FALSE, classes_ |-> <<>>]
    /\ completed = FALSE
    /\ app = NotRun

Init ==
    /\ users_df \in UsersTables
    /\ trends_df \in TrendsTables
    /\ ingredient_risk_df \in Tables(IngredientPool, MaxIngredients)
    /\ InitRest

InitPair ==
    /\ users_df \in {<<[User(Num(25), b, s, a, "Normal") EXCEPT !.UserID = 1]>> :
                        b \in BMIs, s \in SkinTypes, a \in AllergyTexts}
    /\ trends_df \in {<<[Trend(ty, ki) EXCEPT !.TrendName = 1]>> :
                        ty \in TrendTypes, ki \in IngredientTexts}
    /\ ingredient_risk_df \in Tables(PairIngredientPool, MaxIngredients)
    /\ InitRest

----------------------------------------------------------------------------
(* Calls on the rule engine *)

AssessRisk(user_id, trend_name) ==
    LET r == assess_risk(user_id, trend_name)
    IN  /\ call' = [op |-> "assess_risk", user_id |-> user_id, trend_name |-> trend_name,
                    exc |-> r.exc, RiskLevel |-> r.RiskLevel, RiskScore |-> r.RiskScore]
        /\ UNCHANGED <<engine, risk_df, trainer, completed, app>>

\* risk_df = rule_engine.generate_risk_matrix(): the caller's variable is
\* assigned only when the call returns
GenerateRiskMatrix ==
    LET r == generate_risk_matrix
    IN  /\ call' = [op |-> "generate_risk_matrix", exc |-> r.exc,
                    RiskLevel |-> "", RiskScore |-> 0]
        /\ risk_df' = IF r.exc = "none" THEN Df(r.rows) ELSE risk_df
        /\ UNCHANGED <<engine, trainer, completed, app>>

CheckAllergyRisk(user_allergies, trend_ingredients) ==
    LET r == check_allergy_risk(user_allergies, trend_ingredients)
    IN  /\ call' = [op |-> "check_allergy_risk", user_allergies |-> user_allergies,
                    trend_ingredients |-> trend_ingredients,
                    exc |-> r.exc, val |-> r.val, RiskLevel |-> "", RiskScore |-> 0]
        /\ UNCHANGED <<engine, risk_df, trainer, completed, app>>

CheckSkincareRisk(skin_type, trend_type, trend_ingredients) ==
    LET r == check_skincare_risk(skin_type, trend_type, trend_ingredients)
    IN  /\ call' = [op |-> "check_skincare_risk", skin_type |-> skin_type,
                    trend_type |-> trend_type, trend_ingredients |-> trend_ingredients,
                    exc |-> r.exc, val |-> r.val, RiskLevel |-> "", RiskScore |-> 0]
        /\ UNCHANGED <<engine, risk_df, trainer, completed, app>>

CheckDietRisk(bmi, trend_type, trend_ingredients) ==
    LET r == check_diet_risk(bmi, trend_type, trend_ingredients)
    IN  /\ call' = [op |-> "check_diet_risk", bmi |-> bmi,
                    trend_type |-> trend_type, trend_ingredients |-> trend_ingredients,
                    exc |-> r.exc, val |-> r.val, RiskLevel |-> "", RiskScore |-> 0]
        /\ UNCHANGED <<engine, risk_df, trainer, completed, app>>

CheckIngredientRiskLevel(trend_ingredients) ==
    LET r == check_ingredient_risk_level(trend_ingredients)
    IN  /\ call' = [op |-> "check_ingredient_risk_level",
                    trend_ingredients |-> trend_ingredients,
                    exc |-> r.exc, val |-> r.val, RiskLevel |-> "", RiskScore |-> 0]
        /\ UNCHANGED <<engine, risk_df, trainer, completed, app>>

Next ==
    \/ \E user_id \in 1..(MaxUsers + 1), trend_name \in 1..(MaxTrends + 1) :
          AssessRisk(user_id, trend_name)
    \/ GenerateRiskMatrix

\* the four checks called on the cells of the table rows
NextPair ==
    \/ \E user_id \in 1..2, trend_name \in 1..2 : AssessRisk(user_id, trend_name)
    \/ GenerateRiskMatrix
    \/ \E i \in 1..Len(users_df), j \in 1..Len(trends_df) :
          CheckAllergyRisk(users_df[i].Allergies, trends_df[j].KeyIngredients)
    \/ \E i \in 1..Len(users_df), j \in 1..Len(trends_df) :
          CheckSkincareRisk(users_df[i].SkinType, trends_df[j].Type,
                            trends_df[j].KeyIngredients)
    \/ \E i \in 1..Len(users_df), j \in 1..Len(trends_df) :
          CheckDietRisk(users_df[i].BMI, trends_df[j].Type, trends_df[j].KeyIngredients)
    \/ \E j \in 1..Len(trends_df) :
          CheckIngredientRiskLevel(trends_df[j].KeyIngredients)

Spec == Init /\ [][Next]_vars

SpecPair == InitPair /\ [][NextPair]_vars

----------------------------------------------------------------------------
(* Model trainer: src/src/ml_model.py *)

\* 1 if str(x).lower() not in ('none', 'nan') else 0
HasAllergies(x) ==
    IF lower(str(x)) \notin {<<"n","o","n","e">>, <<"n","a","n">>} THEN 1 ELSE 0

\* pd.get_dummies: one indicator per category seen in the column, a missing
\* cell giving no column and all indicators False
Dummies(column, value) ==
    [c \in {column[k] : k \in 1..Len(column)} \ {NA} |-> value = c]

\* _preprocess_features: the feature row of every matrix row, under its index
preprocess_features(X) ==
    [k \in 1..Len(X) |->
        [index |-> k, Age |-> X[k].Age, BMI |-> X[k].BMI,
         SkinType |-> Dummies([i \in 1..Len(X) |-> X[i].SkinType], X[k].SkinType),
         TrendType |-> Dummies([i \in 1..Len(X) |-> X[i].TrendType], X[k].TrendType),
         HasAllergies |-> HasAllergies(X[k].Allergies)]]

\* LabelEncoder.fit: classes_ are the labels seen, sorted
ClassOrder == <<"High Risk", "Medium Risk", "Safe">>
fit_classes(y) ==
    SelectSeq(ClassOrder, LAMBDA c : \E k \in 1..Len(y) : y[k] = c)

\* LabelEncoder.transform: the position of a label in classes_, from 0
encode(classes, label) ==
    (CHOOSE i \in 1..Len(classes) : classes[i] = label) - 1

PrepareFailed(e) ==
    [exc |-> e, X_processed |-> <<>>, y_encoded |-> <<>>, classes_ |-> <<>>,
     risk_df_cleaned |-> <<>>]

\* dropna(): the feature rows with no missing cell; Age and BMI are the
\* only feature columns that can hold NaN
dropna(X) == SelectSeq(X, LAMBDA x : ~x.Age.na /\ ~x.BMI.na)

\* the target and the cleaned matrix, aligned on the index the features kept
training_data(rows, X_processed, y) ==
    [exc |-> "none",
     X_processed |-> X_processed,
     y_encoded |-> [k \in 1..Len(y) |-> encode(fit_classes(y), y[k])],
     classes_ |-> fit_classes(y),
     risk_df_cleaned |-> [k \in 1..Len(X_processed) |-> rows[X_processed[k].index]]]

\* the body of prepare_training_data on the matrix r it generated; a matrix
\* without rows is a DataFrame without columns, and selecting the feature
\* columns raises
prepare_from(r, X_processed) ==
    IF r.exc # "none" THEN PrepareFailed(r.exc)
    ELSE IF r.rows = <<>> THEN PrepareFailed("KeyError")
    ELSE training_data(r.rows, X_processed,
                       [k \in 1..Len(X_processed) |-> r.rows[X_processed[k].index].RiskLevel])

prepare_on(r) ==
    prepare_from(r, IF r.exc = "none" THEN dropna(preprocess_features(r.rows)) ELSE <<>>)

prepare_training_data == prepare_on(generate_risk_matrix)

\* train_test_split(test_size=0.2): ceil(0.2 n) test rows, floor(0.8 n) train rows
n_test_of(n) == (n + 4) \div 5
n_train_of(n) == (4 * n) \div 5

\* the rows of s at the positions in S, in the order of s
RECURSIVE Take(_, _)
Take(s, S) ==
    IF S = {} THEN <<>>
    ELSE LET k == SetMin(S) IN <<s[k]>> \o Take(s, S \ {k})

TrainFailed(model_type, e, msg) ==
    [op |-> "train_model", model_type |-> model_type, exc |-> e, msg |-> msg,
     accuracy |-> <<0, 1>>, report_keys |-> <<>>, conf_matrix_labels |-> {}]

\* the evaluation after fit: classification_report raises when the classes
\* found in y_test and y_pred are not as many as target_names
Evaluate(model_type, y_true, y_pred, classes) ==
    LET labels == {y_true[k] : k \in 1..Len(y_true)} \cup {y_pred[k] : k \in 1..Len(y_pred)}
        hits == Cardinality({k \in 1..Len(y_true) : y_true[k] = y_pred[k]})
    IN  IF Cardinality(labels) # Len(classes)
        THEN TrainFailed(model_type, "ValueError", "Number of classes does not match size of target_names")
        ELSE [op |-> "train_model", model_type |-> model_type, exc |-> "none", msg |-> "",
              accuracy |-> <<hits, Len(y_true)>>, report_keys |-> classes,
              conf_matrix_labels |-> labels]

\* train_model(model_type).  The shuffle of the split is fixed by
\* random_state=42 and the forest's predictions by its fit; the model leaves
\* both open: any test partition of the right size, any prediction among the
\* classes of y_train.  The partitions keep their rows in index order.
train_model(model_type) ==
    \E p \in {prepare_training_data} :
    LET n == Len(p.X_processed)
    IN  IF p.exc # "none"
        THEN /\ call' = TrainFailed(model_type, p.exc, "")
             /\ UNCHANGED <<engine, risk_df, trainer>>
        ELSE /\ label_encoder' = [fitted |-> TRUE, classes_ |-> p.classes_]
             /\ risk_df_cleaned' = Df(p.risk_df_cleaned)
             /\ UNCHANGED <<engine, risk_df>>
             /\ IF n_train_of(n) = 0
                THEN /\ call' = TrainFailed(model_type, "ValueError",
                                            "the resulting train set will be empty")
                     /\ UNCHANGED <<model, X_train, X_test, y_train, y_test>>
                ELSE \E test \in {T \in SUBSET (1..n) : Cardinality(T) = n_test_of(n)} :
                       LET train == (1..n) \ test
                           yt == Take(p.y_encoded, train)
                       IN  /\ X_train' = Df(Take(p.X_processed, train))
                           /\ X_test' = Df(Take(p.X_processed, test))
                           /\ y_train' = Df(yt)
                           /\ y_test' = Df(Take(p.y_encoded, test))
                           /\ IF model_type # "random_forest"
                              THEN /\ call' = TrainFailed(model_type, "ValueError",
                                                          "Unsupported model type.")
                                   /\ UNCHANGED model
                              ELSE /\ model' = [set |-> TRUE, fitted |-> TRUE]
                                   /\ \E y_pred \in [1..n_test_of(n) ->
                                                       {yt[k] : k \in 1..Len(yt)}] :
                                         call' = Evaluate(model_type,
                                                          Take(p.y_encoded, test),
                                                          y_pred, p.classes_)

\* a call of train_model on the trainer
TrainModel(model_type) ==
    /\ train_model(model_type)
    /\ completed' = (completed \/ call'.exc = "none")
    /\ UNCHANGED app

\* predict_risk: the placeholder predict on a 1-D array is refused by the
\* fitted classifier
PredictRisk ==
    /\ call' = [op |-> "predict_risk",
                exc |-> IF ~model.set THEN "Exception" ELSE "ValueError",
                msg |-> IF ~model.set THEN "Model not trained yet."
                        ELSE "Expected 2D array, got 1D array instead",
                reached_predict |-> model.set]
    /\ UNCHANGED <<engine, risk_df, trainer, completed, app>>

ModelTypes == {"random_forest", "svm"}

NextML ==
    \/ \E model_type \in ModelTypes : TrainModel(model_type)
    \/ PredictRisk

SpecML == Init /\ [][NextML]_vars

\* tables whose rows miss one feature cell each, or none
PrepUserPool ==
    << User(Num(25), Num(31), "Sensitive", Str(<<"N","u","t","s">>), "Normal"),
       User(NaNNum, Num(22), "Oily", Str(<<" ","N","o","n","e"," ">>), "Low"),
       User(Num(40), Num(30), "Oily", NaN, "High"),
       User(Num(33), Num(28), NA, Str(<<>>), "Normal"),
       User(Num(51), NaNNum, "Sensitive", Str(<<"n","o","n","e">>), "Low") >>

PrepTrendPool ==
    << Trend("Skincare", Str(<<"N","u","t","s",","," ","A","c","i","d">>)),
       Trend(NA, Str(<<"D","e","t","o","x"," ","T","e","a">>)) >>

InitPrep ==
    /\ users_df \in
          UNION {{[i \in 1..Len(p) |-> [p[i] EXCEPT !.UserID = k[i]]] : k \in Keys(Len(p))} :
                    p \in Tables(PrepUserPool, MaxUsers)}
    /\ trends_df \in
          UNION {{[i \in 1..Len(p) |-> [p[i] EXCEPT !.TrendName = k[i]]] : k \in Keys(Len(p))} :
                    p \in Tables(PrepTrendPool, MaxTrends)}
    /\ ingredient_risk_df \in Tables(IngredientPool, MaxIngredients)
    /\ InitRest

\* a call of prepare_training_data: it returns X_processed, y_encoded and
\* risk_df_cleaned, and leaves the fitted label encoder and risk_df_cleaned
\* on the trainer
PrepareTrainingData ==
    \E p \in {prepare_training_data} :
        /\ call' = [op |-> "prepare_training_data", exc |-> p.exc,
                    X_processed |-> p.X_processed, y_encoded |-> p.y_encoded,
                    risk_df_cleaned |-> p.risk_df_cleaned]
        /\ IF p.exc # "none"
           THEN UNCHANGED <<label_encoder, risk_df_cleaned>>
           ELSE /\ label_encoder' = [fitted |-> TRUE, classes_ |-> p.classes_]
                /\ risk_df_cleaned' = Df(p.risk_df_cleaned)
        /\ UNCHANGED <<engine, risk_df, model, X_train, X_test, y_train, y_test,
                       completed, app>>

\* a call of _preprocess_features on the feature columns of the matrix
PreprocessFeatures ==
    \E r \in {generate_risk_matrix} :
        /\ r.exc = "none"
        /\ call' = [op |-> "_preprocess_features", exc |-> "none", X |-> r.rows,
                    X_processed |-> preprocess_features(r.rows)]
        /\ UNCHANGED <<engine, risk_df, trainer, completed, app>>

NextPrep ==
    \/ PrepareTrainingData
    \/ PreprocessFeatures

SpecPrep == InitPrep /\ [][NextPrep]_vars

----------------------------------------------------------------------------
(* Application: src/app.py *)

\* the trainer as MLModel.__init__ leaves it
NewMLModel ==
    /\ model = NoneModel
    /\ X_train = NoneDf /\ X_test = NoneDf /\ y_train = NoneDf /\ y_test = NoneDf
    /\ risk_df_cleaned = NoneDf
    /\ label_encoder = [fitted |-> FALSE, classes_ |-> <<>>]

\* what run() leaves behind: setup is "True" or "False" as setup() returned,
\* "raised" when an exception left it; error is st.error having been called;
\* rendered is render_sidebar and render_main_dashboard having been called
Ran(setup, error, rendered, matrix_exc, train_exc, df) ==
    [ran |-> TRUE, setup |-> setup, error |-> error, rendered |-> rendered,
     matrix_exc |-> matrix_exc, train_exc |-> train_exc, risk_df |-> df]

\* TrendWiseApp.run(): setup() calls load_and_process_data(), which loads the
\* tables, generates the matrix and, when it has rows, trains a new MLModel
\* inside try/except; setup() then tests only the loader and the matrix
Run ==
    /\ ~app.ran
    /\ NewMLModel
    /\ \E loaded \in BOOLEAN : \E r \in {generate_risk_matrix} :
          IF ~loaded
          THEN /\ app' = Ran("False", TRUE, FALSE, "none", "none", NoneDf)
               /\ call' = [op |-> "run", exc |-> "none"]
               /\ UNCHANGED <<engine, risk_df, trainer, completed>>
          ELSE IF r.exc # "none"
          THEN /\ app' = Ran("raised", FALSE, FALSE, r.exc, "none", NoneDf)
               /\ call' = [op |-> "run", exc |-> r.exc]
               /\ UNCHANGED <<engine, risk_df, trainer, completed>>
          ELSE IF r.rows = <<>>
          THEN /\ app' = Ran("False", TRUE, FALSE, "none", "none", Df(r.rows))
               /\ call' = [op |-> "run", exc |-> "none"]
               /\ UNCHANGED <<engine, risk_df, trainer, completed>>
          ELSE /\ train_model("random_forest")
               /\ completed' = (call'.exc = "none")
               /\ app' = Ran("True", FALSE, TRUE, "none", call'.exc, Df(r.rows))

NextApp == Run

SpecApp == Init /\ [][NextApp]_vars

----------------------------------------------------------------------------
(* Properties of the rule engine *)

UserIDs == {users_df[i].UserID : i \in 1..Len(users_df)}
TrendNames == {trends_df[j].TrendName : j \in 1..Len(trends_df)}

\* UserID and TrendName are keys of their tables
UniqueKeys ==
    /\ Cardinality(UserIDs) = Len(users_df)
    /\ Cardinality(TrendNames) = Len(trends_df)

Returned(op) == call.op = op /\ call.exc = "none"

LevelMatchesScore(level, score) ==
    /\ level = "Safe" <=> score = 0
    /\ level = "Medium Risk" <=> (1 <= score /\ score <= 2)
    /\ level = "High Risk" <=> score >= 3

\* C1: in every result of assess_risk and every row of the risk matrix,
\* RiskLevel is "Safe" iff RiskScore = 0, "Medium Risk" iff 1 <= RiskScore <= 2
\* and "High Risk" iff RiskScore >= 3.
C1_ThresholdConsistency ==
    /\ Returned("assess_risk") => LevelMatchesScore(call.RiskLevel, call.RiskScore)
    /\ \A k \in 1..Len(risk_df.rows) :
          LevelMatchesScore(risk_df.rows[k].RiskLevel, risk_df.rows[k].RiskScore)

C1_Witness ==
    /\ Returned("assess_risk") /\ call.RiskScore = 3 /\ call.RiskLevel = "High Risk"
    /\ risk_df.set /\ Len(risk_df.rows) > 0

\* the values the four rules return for a user's and a trend's attributes
RuleOutputs(allergies, skin_type, bmi, trend_type, ingredients) ==
    [Allergy |-> check_allergy_risk(allergies, ingredients).val,
     Skincare |-> check_skincare_risk(skin_type, trend_type, ingredients).val,
     Diet |-> check_diet_risk(bmi, trend_type, ingredients).val,
     Banned |-> check_ingredient_risk_level(ingredients).val]

ScoreIsMax(score, o) ==
    /\ score \in {o.Allergy, o.Skincare, o.Diet, o.Banned}
    /\ score >= o.Allergy /\ score >= o.Skincare /\ score >= o.Diet /\ score >= o.Banned
    /\ score \in 0..3
    /\ (o.Allergy = 3 /\ o.Skincare = 2) => score = 3
    /\ (o.Allergy = 0 /\ o.Skincare = 0 /\ o.Diet = 0 /\ o.Banned = 0) => score = 0

\* C2: every RiskScore, of a matrix row or of an assess_risk result, is the
\* maximum of the four rule outputs of its pair and lies in 0..3; it is 3 when
\* the allergy and the skincare rule both fire and 0 when no rule fires.
C2_ScoreIsMaxOfRules ==
    /\ \A k \in 1..Len(risk_df.rows) :
          LET row == risk_df.rows[k]
          IN  ScoreIsMax(row.RiskScore,
                         RuleOutputs(row.Allergies, row.SkinType, row.BMI,
                                     row.TrendType, row.KeyIngredients))
    /\ (Returned("assess_risk") /\ UniqueKeys) =>
          \A i \in 1..Len(users_df), j \in 1..Len(trends_df) :
             (users_df[i].UserID = call.user_id /\ trends_df[j].TrendName = call.trend_name)
             => ScoreIsMax(call.RiskScore,
                           RuleOutputs(users_df[i].Allergies, users_df[i].SkinType,
                                       users_df[i].BMI, trends_df[j].Type,
                                       trends_df[j].KeyIngredients))

C2_Witness ==
    /\ Returned("assess_risk") /\ call.RiskScore = 3
    /\ risk_df.set /\ Len(risk_df.rows) = 1
    /\ LET o == RuleOutputs(users_df[1].Allergies, users_df[1].SkinType, users_df[1].BMI,
                            trends_df[1].Type, trends_df[1].KeyIngredients)
       IN  o.Allergy = 3 /\ o.Skincare = 2

\* the matrix rows carrying the keys (user_id, trend_name)
RowsOf(user_id, trend_name) ==
    {k \in 1..Len(risk_df.rows) :
        risk_df.rows[k].UserID = user_id /\ risk_df.rows[k].TrendName = trend_name}

\* C3: with unique keys, generate_risk_matrix returns |Users| x |Trends| rows,
\* exactly one for each (UserID, TrendName) pair.
C3_MatrixComplete ==
    (call.op = "generate_risk_matrix" /\ UniqueKeys) =>
        /\ call.exc = "none" /\ risk_df.set
        /\ Len(risk_df.rows) = Len(users_df) * Len(trends_df)
        /\ \A u \in UserIDs, n \in TrendNames : Cardinality(RowsOf(u, n)) = 1

\* C4: with unique keys, assess_risk(u, t) for keys present in the tables
\* returns the RiskLevel and RiskScore of the matrix row carrying (u, t).
C4_SinglePairAgreesWithMatrix ==
    (/\ call.op = "assess_risk" /\ risk_df.set /\ UniqueKeys
     /\ call.user_id \in UserIDs /\ call.trend_name \in TrendNames) =>
        /\ call.exc = "none"
        /\ RowsOf(call.user_id, call.trend_name) # {}
        /\ \A k \in RowsOf(call.user_id, call.trend_name) :
              /\ risk_df.rows[k].RiskLevel = call.RiskLevel
              /\ risk_df.rows[k].RiskScore = call.RiskScore

C4_Witness ==
    /\ Returned("assess_risk") /\ risk_df.set /\ UniqueKeys
    /\ Len(users_df) = 2 /\ Len(trends_df) = 2
    /\ call.user_id = 2 /\ call.trend_name = 2
    /\ risk_df.rows[1].RiskScore # call.RiskScore

\* the position in the matrix of the pair assess_risk(user_id, trend_name) scores
FirstRow(user_id, trend_name) ==
    LET i == SetMin({x \in 1..Len(users_df) : users_df[x].UserID = user_id})
        j == SetMin({x \in 1..Len(trends_df) : trends_df[x].TrendName = trend_name})
    IN  (i - 1) * Len(trends_df) + j

\* C5: over any sequence of assess_risk and generate_risk_matrix calls, a pair
\* yields the same outcome every time: a regenerated matrix equals the one
\* generated before, an assessment repeated equals the one before it, and an
\* assessment equals the row an earlier generation gave its pair.
C5_Purity ==
    [][ /\ (call'.op = "generate_risk_matrix" /\ call'.exc = "none" /\ risk_df.set)
           => risk_df' = risk_df
        /\ (/\ call'.op = "assess_risk" /\ call.op = "assess_risk"
            /\ call'.user_id = call.user_id /\ call'.trend_name = call.trend_name)
           => call' = call
        /\ (/\ call'.op = "assess_risk" /\ risk_df.set
            /\ call'.user_id \in UserIDs /\ call'.trend_name \in TrendNames)
           => LET row == risk_df.rows[FirstRow(call'.user_id, call'.trend_name)]
              IN  /\ call'.exc = "none"
                  /\ call'.RiskLevel = row.RiskLevel
                  /\ call'.RiskScore = row.RiskScore
      ]_vars

C5_Witness ==
    /\ Returned("assess_risk") /\ risk_df.set
    /\ Len(risk_df.rows) = MaxUsers * MaxTrends
    /\ call.RiskScore = 3
    /\ \E k \in 1..Len(risk_df.rows) : risk_df.rows[k].RiskScore = 0

\* C6: assess_risk with a user_id that is no UserID of Users, or a trend_name
\* that is no TrendName of Trends, raises; it returns no result.
C6_UnknownKeyFails ==
    (/\ call.op = "assess_risk"
     /\ (call.user_id \notin UserIDs \/ call.trend_name \notin TrendNames)) =>
        call.exc = "IndexError"

C6_Witness ==
    /\ call.op = "assess_risk" /\ call.exc = "IndexError"
    /\ users_df # <<>> /\ trends_df # <<>>
    /\ call.user_id \in UserIDs /\ call.trend_name \notin TrendNames

\* C7: scoring never raises on missing Allergies or KeyIngredients text, so
\* generate_risk_matrix completes with a row for every pair; the missing
\* text matches nothing, so no rule fires for a trend whose text is missing.
C7_MissingTextNeverRaises ==
    call.op = "generate_risk_matrix" =>
        /\ call.exc = "none" /\ risk_df.set
        /\ Len(risk_df.rows) = Len(users_df) * Len(trends_df)
        /\ \A k \in 1..Len(risk_df.rows) :
              risk_df.rows[k].KeyIngredients.na => risk_df.rows[k].RiskScore = 0

\* the token set of a text: comma-split, trimmed, lowercased, no empty string
TokenSet(text) ==
    LET parts == split(text)
    IN  {lower(strip(parts[i])) : i \in 1..Len(parts)} \ {<<>>}

\* the allergen set of a user: none when the text is empty or "none"
AllergenSet(text) ==
    IF TokenSet(text) = {<<"n","o","n","e">>} THEN {} ELSE TokenSet(text)

\* C8: on text cells, check_allergy_risk returns 3 iff the user's allergen set
\* and the trend's ingredient token set intersect, and 0 otherwise, an allergy
\* text that is empty or "none" giving the empty allergen set.
C8_AllergyIffIntersect ==
    (/\ call.op = "check_allergy_risk"
     /\ ~call.user_allergies.na /\ ~call.trend_ingredients.na) =>
        /\ call.exc = "none"
        /\ call.val \in {0, 3}
        /\ call.val = 3 <=>
              AllergenSet(call.user_allergies.s) \cap TokenSet(call.trend_ingredients.s) # {}

\* C9: check_ingredient_risk_level returns 3 iff a token of the trend's
\* ingredients equals the lowercased name of an IngredientRisk row whose
\* RiskLevel is "High", and 0 otherwise; with an empty table it returns 0.
C9_BannedIffHighListed ==
    call.op = "check_ingredient_risk_level" =>
        LET toks == IF call.trend_ingredients.na THEN {}
                    ELSE TokenSet(call.trend_ingredients.s)
            listed == \E j \in 1..Len(ingredient_risk_df) :
                         /\ ingredient_risk_df[j].RiskLevel = "High"
                         /\ ~ingredient_risk_df[j].Ingredient.na
                         /\ lower(ingredient_risk_df[j].Ingredient.s) \in toks
        IN  /\ call.exc = "none"
            /\ call.val \in {0, 3}
            /\ call.val = 3 <=> listed
            /\ ingredient_risk_df = <<>> => call.val = 0

C9_Witness ==
    /\ Returned("check_ingredient_risk_level") /\ call.val = 3
    /\ call.trend_ingredients.s # lower(call.trend_ingredients.s)
    /\ Len(tokens(call.trend_ingredients)) > 1

\* the skincare-mismatch condition: Type "Skincare", SkinType "Sensitive",
\* ingredients containing "acid"
SkincareFires(skin_type, trend_type, ingredients) ==
    /\ trend_type = "Skincare" /\ skin_type = "Sensitive"
    /\ ~ingredients.na /\ contains(ACID, lower(ingredients.s))

\* the diet-mismatch condition: Type "Dietary", BMI above 30, ingredients
\* containing "detox"
DietFires(bmi, trend_type, ingredients) ==
    /\ trend_type = "Dietary" /\ ~bmi.na /\ bmi.v > 30
    /\ ~ingredients.na /\ contains(DETOX, lower(ingredients.s))

\* each value of the score has its one cause
OneCause(score, allergies, skin_type, bmi, trend_type, ingredients) ==
    LET sk == SkincareFires(skin_type, trend_type, ingredients)
        di == DietFires(bmi, trend_type, ingredients)
        three == \/ check_allergy_risk(allergies, ingredients).val = 3
                 \/ check_ingredient_risk_level(ingredients).val = 3
    IN  /\ ~(sk /\ di)
        /\ score = 3 <=> three
        /\ score = 2 <=> (sk /\ ~three)
        /\ score = 1 <=> (di /\ ~sk /\ ~three)
        /\ score = 0 <=> (~sk /\ ~di /\ ~three)
        /\ (~bmi.na /\ bmi.v = 30) => score # 1

\* C16: the skincare and the diet rule never both fire on a pair, and in every
\* matrix row and assess_risk result RiskScore is 3 iff the allergy or the
\* banned rule fires, 2 iff the skincare rule fires and no 3-weight rule, 1
\* iff only the diet rule fires (never at BMI 30), 0 iff no rule fires.
C16_OneCausePerScore ==
    /\ \A k \in 1..Len(risk_df.rows) :
          LET row == risk_df.rows[k]
          IN  OneCause(row.RiskScore, row.Allergies, row.SkinType, row.BMI,
                       row.TrendType, row.KeyIngredients)
    /\ (Returned("assess_risk") /\ UniqueKeys) =>
          \A i \in 1..Len(users_df), j \in 1..Len(trends_df) :
             (users_df[i].UserID = call.user_id /\ trends_df[j].TrendName = call.trend_name)
             => OneCause(call.RiskScore, users_df[i].Allergies, users_df[i].SkinType,
                         users_df[i].BMI, trends_df[j].Type, trends_df[j].KeyIngredients)

C16_Witness ==
    /\ Returned("assess_risk") /\ call.RiskScore = 1
    /\ risk_df.set /\ Len(risk_df.rows) = 1 /\ risk_df.rows[1].RiskScore = 1
    /\ users_df[1].BMI = Num(31) /\ trends_df[1].Type = "Dietary"

----------------------------------------------------------------------------
(* Properties of the model trainer *)

\* C10: train_model with a classifier kind other than 'random_forest' fails
\* with the unsupported-kind error before any computation: the call raises
\* ValueError("Unsupported model type.") and leaves model, X_train, X_test,
\* y_train, y_test, risk_df_cleaned and the label encoder as they were.
C10_UnsupportedKindFailsFirst ==
    [][(call'.op = "train_model" /\ call'.model_type # "random_forest")
          => /\ call'.exc = "ValueError"
             /\ call'.msg = "Unsupported model type."
             /\ UNCHANGED trainer]_vars

\* C11: while no train_model call has returned normally (none made, kind
\* rejected, or aborted during preparation, split, fit or evaluation),
\* predict_risk raises Exception("Model not trained yet.") and does not reach
\* the classifier's predict.
C11_PredictBeforeTrainingFails ==
    (call.op = "predict_risk" /\ ~completed) =>
        /\ call.exc = "Exception"
        /\ call.msg = "Model not trained yet."
        /\ ~call.reached_predict

\* the matrix rows with no missing cell in Age, BMI, SkinType, Allergies, TrendType
CompleteRows(rows) ==
    SelectSeq([k \in 1..Len(rows) |-> k],
              LAMBDA k : /\ ~rows[k].Age.na /\ ~rows[k].BMI.na
                         /\ rows[k].SkinType # NA /\ rows[k].TrendType # NA
                         /\ ~rows[k].Allergies.na)

\* C13: prepare_training_data keeps exactly the matrix rows with no missing
\* value in Age, BMI, SkinType, Allergies and TrendType, in matrix order, and
\* the label vector is as long as the features, its i-th entry the code of
\* the RiskLevel of the matrix row the i-th feature row came from.
C13_OneFilterForFeaturesAndLabels ==
    Returned("prepare_training_data") =>
        LET rows == generate_risk_matrix.rows
            X == call.X_processed
            y == call.y_encoded
        IN  /\ [i \in 1..Len(X) |-> X[i].index] = CompleteRows(rows)
            /\ Len(y) = Len(X)
            /\ \A i \in 1..Len(X) :
                  label_encoder.classes_[y[i] + 1] = rows[X[i].index].RiskLevel

\* C14: in every row _preprocess_features returns, HasAllergies is 1 iff the
\* row's allergy token set (comma-split, trimmed, lowercased, empty strings
\* discarded, empty or "none" giving the empty set) is non-empty, and 0
\* otherwise; a missing cell has no token.
C14_HasAllergiesIffTokens ==
    call.op = "_preprocess_features" =>
        \A k \in 1..Len(call.X) :
            call.X_processed[k].HasAllergies =
                IF ~call.X[k].Allergies.na /\ AllergenSet(call.X[k].Allergies.s) # {}
                THEN 1 ELSE 0

\* C15: every train_model call that returns gives a confusion matrix over the
\* three risk classes in their fixed order, a 3-by-3 grid whatever classes the
\* test partition and the predictions hold, and a report keyed by the label
\* strings.
C15_ThreeClassConfusionMatrix ==
    Returned("train_model") =>
        /\ call.conf_matrix_labels = {0, 1, 2}
        /\ \A i \in 1..Len(call.report_keys) :
              call.report_keys[i] \in {"High Risk", "Medium Risk", "Safe"}

----------------------------------------------------------------------------
(* Properties of the application *)

\* C12: when matrix generation or model training failed during
\* load_and_process_data, setup() has shown the blocking error and returned
\* False, and run() has not rendered the sidebar and the dashboard.
C12_FailureHaltsRendering ==
    (app.ran /\ (app.matrix_exc # "none" \/ app.train_exc # "none")) =>
        /\ app.error
        /\ app.setup = "False"
        /\ ~app.rendered

============================================================================
